---- MODULE Spec2Model ----
(***************************************************************************)
(* Model of app.py: the "Consolidate Chassis Allocation by Style" tool.    *)
(*                                                                         *)
(* A text is a sequence of one-character strings, so that substring        *)
(* containment, trimming, case mapping and parsing are computed and not    *)
(* assumed.  A cell is NaN (missing), a text or a number.  A table is a    *)
(* record [cols, rows]: the column names in order and the rows in order,   *)
(* each row a sequence of cells aligned with cols.                         *)
(***************************************************************************)
EXTENDS Integers, Sequences, FiniteSets, TLC

VARIABLES
    un_df, st_df,                   \* the two uploaded tables, or NoTable
    un_style_col, st_style_col,     \* selectbox values of the column mapping
    st_alloc_col,
    st_alloc_chosen,                \* TRUE once the user picked st_alloc_col by hand
    opt_strip, opt_upper,           \* the four normalization checkboxes
    opt_rm_spaces, opt_rm_lead0,
    handle_dupes,                   \* "Keep first" | "Sum allocations"
    structured_final,               \* the reduced reference table of the last run
    consolidated,                   \* the consolidated table of the last run
    metrics,                        \* the three reported counts of the last run
    series, prev_series, passes,    \* a series under repeated normalization
    columns, guessed                \* a header under the column resolver

vars == <<un_df, st_df, un_style_col, st_style_col, st_alloc_col, st_alloc_chosen,
          opt_strip, opt_upper, opt_rm_spaces, opt_rm_lead0, handle_dupes,
          structured_final, consolidated, metrics,
          series, prev_series, passes, columns, guessed>>

-----------------------------------------------------------------------------
(* Bounds of the model *)

\* longest text put through the normalization
MaxStrLen == 3
\* times the normalization is applied to its own result
MaxPasses == 2
\* most columns of a header given to the resolver
MaxCols == 3
\* most rows of a reference (structured) table
MaxRefRows == 3
\* most rows of an unstructured table
MaxLeftRows == 2

-----------------------------------------------------------------------------
(* Texts *)

LowerLetters ==
    <<"a","b","c","d","e","f","g","h","i","j","k","l","m",
      "n","o","p","q","r","s","t","u","v","w","x","y","z">>

UpperLetters ==
    <<"A","B","C","D","E","F","G","H","I","J","K","L","M",
      "N","O","P","Q","R","S","T","U","V","W","X","Y","Z">>

Digits == <<"0","1","2","3","4","5","6","7","8","9">>

\* Characters in code-point order (the order Python compares str by).
CharOrder ==
    <<"\t", "\n", " ", "#", "-">> \o Digits \o UpperLetters \o <<"_">> \o LowerLetters

Whitespace == {"\t", "\n", " "}

IndexOf(seq, x) == CHOOSE i \in 1..Len(seq) : seq[i] = x

InSeq(seq, x) == \E i \in 1..Len(seq) : seq[i] = x

upper_char(c) == IF InSeq(LowerLetters, c) THEN UpperLetters[IndexOf(LowerLetters, c)] ELSE c

lower_char(c) == IF InSeq(UpperLetters, c) THEN LowerLetters[IndexOf(UpperLetters, c)] ELSE c

\* str.upper()
upper(t) == [i \in 1..Len(t) |-> upper_char(t[i])]

\* str.lower()
lower(t) == [i \in 1..Len(t) |-> lower_char(t[i])]

\* t in lc
Contains(lc, t) ==
    \E k \in 0..(Len(lc) - Len(t)) : \A i \in 1..Len(t) : lc[k + i] = t[i]

RECURSIVE lstrip(_)
lstrip(t) == IF t # <<>> /\ Head(t) \in Whitespace THEN lstrip(Tail(t)) ELSE t

RECURSIVE rstrip(_)
rstrip(t) ==
    IF t # <<>> /\ t[Len(t)] \in Whitespace THEN rstrip(SubSeq(t, 1, Len(t) - 1)) ELSE t

\* str.strip()
strip(t) == rstrip(lstrip(t))

\* re.sub(r"\s+", "", t)
remove_spaces_re(t) == SelectSeq(t, LAMBDA c : c \notin Whitespace)

\* re.sub(r"^0+", "", z)
RECURSIVE remove_leading_zeros_re(_)
remove_leading_zeros_re(z) ==
    IF z # <<>> /\ Head(z) = "0" THEN remove_leading_zeros_re(Tail(z)) ELSE z

\* t1 < t2 as Python compares str
RECURSIVE TextLess(_, _)
TextLess(t1, t2) ==
    IF t2 = <<>> THEN FALSE
    ELSE IF t1 = <<>> THEN TRUE
    ELSE IF Head(t1) = Head(t2) THEN TextLess(Tail(t1), Tail(t2))
    ELSE IndexOf(CharOrder, Head(t1)) < IndexOf(CharOrder, Head(t2))

-----------------------------------------------------------------------------
(* Cells *)

NaN == [kind |-> "nan"]

Str(t) == [kind |-> "str", text |-> t]

Num(n) == [kind |-> "num", num |-> n]

notna(c) == c.kind # "nan"

RECURSIVE NatText(_)
NatText(n) == IF n < 10 THEN <<Digits[n + 1]>> ELSE NatText(n \div 10) \o <<Digits[(n % 10) + 1]>>

\* str(value), the element-wise conversion of Series.astype(str)
astype_str(c) ==
    CASE c.kind = "str" -> c.text
      [] c.kind = "nan" -> <<"n", "a", "n">>
      [] c.kind = "num" -> IF c.num < 0 THEN <<"-">> \o NatText(-c.num) ELSE NatText(c.num)

normalize_value(c, do_strip, to_upper, remove_spaces, remove_leading_zeros) ==
    LET x0 == astype_str(c)
        x1 == IF do_strip THEN strip(x0) ELSE x0
        x2 == IF remove_spaces THEN remove_spaces_re(x1) ELSE x1
        x3 == IF to_upper THEN upper(x2) ELSE x2
        x4 == IF remove_leading_zeros THEN remove_leading_zeros_re(x3) ELSE x3
    IN  Str(x4)

normalize_style_series(s, do_strip, to_upper, remove_spaces, remove_leading_zeros) ==
    [i \in 1..Len(s) |->
        normalize_value(s[i], do_strip, to_upper, remove_spaces, remove_leading_zeros)]

-----------------------------------------------------------------------------
(* Column resolver *)

STYLE_CANDIDATES ==
    << <<"s","t","y","l","e">>,
       <<"s","t","y","l","e"," ","#">>,
       <<"s","t","y","l","e"," ","n","o">>,
       <<"s","t","y","l","e"," ","n","u","m","b","e","r">>,
       <<"s","t","y","l","e","_","n","u","m">>,
       <<"s","t","y","l","e","i","d">>,
       <<"s","t","y","l","e"," ","i","d">> >>

CHASSIS_CANDIDATES ==
    << <<"c","h","a","s","s","i","s"," ","a","l","l","o","c","a","t","i","o","n">>,
       <<"c","h","a","s","s","i","s","_","a","l","l","o","c">>,
       <<"c","h","a","s","s","i","s","a","l","l","o","c","a","t","i","o","n">>,
       <<"a","l","l","o","c","a","t","i","o","n">>,
       <<"c","h","a","s","s","i","s">> >>

\* Python's None: no column name is this sequence (its element is not a character).
None == <<"None">>

\* bool(x) of a guess: None and the empty name are falsy
Truthy(x) == x # None /\ x # <<>>

all_terms_in(c, positive_terms) ==
    \A k \in 1..Len(positive_terms) : Contains(lower(c), positive_terms[k])

any_term_in(c, positive_terms) ==
    \E k \in 1..Len(positive_terms) : Contains(lower(c), positive_terms[k])

\* for c in columns: if <c is a hit>: return c -- (None when the loop ends)
FirstColumn(cols, hits) ==
    IF hits = {} THEN None
    ELSE cols[CHOOSE i \in hits : \A j \in hits : i <= j]

guess_column(cols, positive_terms, require_all) ==
    LET allhits == {i \in 1..Len(cols) : all_terms_in(cols[i], positive_terms)}
        anyhits == {i \in 1..Len(cols) : any_term_in(cols[i], positive_terms)}
    IN  IF require_all /\ allhits # {}
        THEN FirstColumn(cols, allhits)
        ELSE FirstColumn(cols, anyhits)

guess_style_column(cols) == guess_column(cols, STYLE_CANDIDATES, FALSE)

guess_chassis_column(cols) ==
    LET both == guess_column(cols, << <<"c","h","a","s","s","i","s">>,
                                      <<"a","l","l","o","c">> >>, TRUE)
    IN  IF Truthy(both) THEN both ELSE guess_column(cols, CHASSIS_CANDIDATES, FALSE)

\* guess_style_column(df.columns) or (len(df.columns) and df.columns[0])
guess_style_or_first(cols) ==
    LET g == guess_style_column(cols)
    IN  IF Truthy(g) THEN g ELSE IF Len(cols) = 0 THEN None ELSE cols[1]

\* st.selectbox(options=list(df.columns), index=index(guess) if guess in columns else 0)
selectbox_default(cols, guess) ==
    IF Truthy(guess) /\ InSeq(cols, guess) THEN guess ELSE cols[1]

-----------------------------------------------------------------------------
(* Tables *)

NoTable == [cols |-> <<None>>, rows |-> <<>>]

STYLE_KEY == <<"_","S","T","Y","L","E","_","K","E","Y","_">>

ALLOC_NUM == <<"_","a","l","l","o","c","_","n","u","m","_">>

SUFFIX_Y == <<"_","y">>

\* position of the column labelled name
ColIndex(df, name) == CHOOSE i \in 1..Len(df.cols) :
                          df.cols[i] = name /\ \A j \in 1..(i - 1) : df.cols[j] # name

\* df[name]
Column(df, name) == [i \in 1..Len(df.rows) |-> df.rows[i][ColIndex(df, name)]]

\* df[name] = ser : replaces the column in place when it exists, else appends it
SetColumn(df, name, ser) ==
    IF InSeq(df.cols, name)
    THEN [cols |-> df.cols,
          rows |-> [i \in 1..Len(df.rows) |->
                       [df.rows[i] EXCEPT ![ColIndex(df, name)] = ser[i]]]]
    ELSE [cols |-> Append(df.cols, name),
          rows |-> [i \in 1..Len(df.rows) |-> Append(df.rows[i], ser[i])]]

\* df[[names]]
SelectColumns(df, names) ==
    [cols |-> names,
     rows |-> [i \in 1..Len(df.rows) |->
                  [k \in 1..Len(names) |-> df.rows[i][ColIndex(df, names[k])]]]]

\* the rows at the positions keep (a set), in their original order
RECURSIVE RowsAt(_, _, _)
RowsAt(rows, keep, i) ==
    IF i > Len(rows) THEN <<>>
    ELSE (IF i \in keep THEN <<rows[i]>> ELSE <<>>) \o RowsAt(rows, keep, i + 1)

\* (variant: the rows with a missing cell are not dropped)
dropna_none(df, name) == df

\* df.dropna(subset=[name])
dropna(df, name) ==
    [cols |-> df.cols,
     rows |-> RowsAt(df.rows, {i \in 1..Len(df.rows) : notna(Column(df, name)[i])}, 1)]

\* (variant: nothing is dropped)
drop_duplicates_none(df, name) == df

\* (variant: keep="last")
drop_duplicates_last(df, name) ==
    LET k == Column(df, name)
    IN  [cols |-> df.cols,
         rows |-> RowsAt(df.rows,
                         {i \in 1..Len(df.rows) : \A j \in (i + 1)..Len(df.rows) : k[j] # k[i]}, 1)]

\* df.drop_duplicates(name, keep="first")
drop_duplicates(df, name) ==
    LET k == Column(df, name)
    IN  [cols |-> df.cols,
         rows |-> RowsAt(df.rows,
                         {i \in 1..Len(df.rows) : \A j \in 1..(i - 1) : k[j] # k[i]}, 1)]

\* df.drop(columns=[name], errors="ignore")
drop_columns(df, name) ==
    LET keep == {i \in 1..Len(df.cols) : df.cols[i] # name}
    IN  [cols |-> RowsAt(df.cols, keep, 1),
         rows |-> [r \in 1..Len(df.rows) |-> RowsAt(df.rows[r], keep, 1)]]

\* pd.to_numeric(value, errors="coerce"): an optionally signed run of digits
\* parses, a number stays, anything else (and a missing cell) becomes NaN
RECURSIVE DigitsValue(_, _)
DigitsValue(t, acc) ==
    IF t = <<>> THEN acc
    ELSE DigitsValue(Tail(t), 10 * acc + (IndexOf(Digits, Head(t)) - 1))

IsDigits(t) == t # <<>> /\ \A i \in 1..Len(t) : InSeq(Digits, t[i])

to_numeric(c) ==
    CASE c.kind = "num" -> c
      [] c.kind = "nan" -> NaN
      [] c.kind = "str" ->
            LET t == c.text
            IN  IF IsDigits(t) THEN Num(DigitsValue(t, 0))
                ELSE IF t # <<>> /\ Head(t) = "-" /\ IsDigits(Tail(t))
                     THEN Num(-DigitsValue(Tail(t), 0))
                     ELSE NaN

\* the distinct texts of a set in ascending order (groupby sorts the group keys)
RECURSIVE SortedCells(_)
SortedCells(S) ==
    IF S = {} THEN <<>>
    ELSE LET m == CHOOSE x \in S : \A y \in S : ~TextLess(y.text, x.text)
         IN  <<m>> \o SortedCells(S \ {m})

\* Series.sum(min_count=1) over the cells at positions idx: NaN cells are skipped,
\* and the sum of no number at all is NaN
RECURSIVE SumFrom(_, _, _)
SumFrom(ser, idx, i) ==
    IF i > Len(ser) THEN 0
    ELSE (IF i \in idx /\ notna(ser[i]) THEN ser[i].num ELSE 0) + SumFrom(ser, idx, i + 1)

\* (variant: .count() -- the number of values, not their sum)
count_min_count(ser, idx) ==
    IF \E i \in idx : notna(ser[i])
    THEN Num(Cardinality({i \in idx : notna(ser[i])}))
    ELSE NaN

sum_min_count(ser, idx) ==
    IF \E i \in idx : notna(ser[i]) THEN Num(SumFrom(ser, idx, 1)) ELSE NaN

\* df.groupby(key, as_index=False)[name].sum(min_count=1)
groupby_sum(df, key, name) ==
    LET k == Column(df, key)
        v == Column(df, name)
        ks == SortedCells({k[i] : i \in 1..Len(k)})
    IN  [cols |-> <<key, name>>,
         rows |-> [g \in 1..Len(ks) |->
                      <<ks[g], sum_min_count(v, {i \in 1..Len(k) : k[i] = ks[g]})>>]]

\* concatenation of a sequence of sequences
RECURSIVE Flatten(_)
Flatten(ss) == IF ss = <<>> THEN <<>> ELSE Head(ss) \o Flatten(Tail(ss))

\* labels of left.merge(right, on=key, suffixes=("", suffix)): the left labels,
\* then the right labels other than the key; a right label that the left table
\* also has gets the suffix
merge_cols(left, right, key, suffix) ==
    LET rcols == RowsAt(right.cols, {i \in 1..Len(right.cols) : right.cols[i] # key}, 1)
    IN  left.cols \o
        [c \in 1..Len(rcols) |->
            IF InSeq(left.cols, rcols[c]) THEN rcols[c] \o suffix ELSE rcols[c]]

\* the rows that left row i yields: one per right row with the same key, in
\* right order; one filled with NaN if there is none
merge_row(left, right, key, i) ==
    LET rk == Column(right, key)
        lk == Column(left, key)
        rest == {c \in 1..Len(right.cols) : right.cols[c] # key}
        hits == RowsAt(right.rows, {j \in 1..Len(rk) : rk[j] = lk[i]}, 1)
    IN  IF hits = <<>>
        THEN << left.rows[i] \o [c \in 1..Cardinality(rest) |-> NaN] >>
        ELSE [h \in 1..Len(hits) |-> left.rows[i] \o RowsAt(hits[h], rest, 1)]

\* (variant: how="left", sort=True -- the result is ordered by the join key)
merge_left_sorted(left, right, key, suffix) ==
    LET lk == Column(left, key)
        ks == SortedCells({lk[i] : i \in 1..Len(lk)})
        of_key(g) == Flatten([i \in 1..Len(lk) |->
                         IF lk[i] = ks[g] THEN merge_row(left, right, key, i) ELSE <<>>])
    IN  [cols |-> merge_cols(left, right, key, suffix),
         rows |-> Flatten([g \in 1..Len(ks) |-> of_key(g)])]

\* left.merge(right, on=key, how="left", suffixes=("", suffix)): the rows of
\* every left row, in left order
merge_left(left, right, key, suffix) ==
    [cols |-> merge_cols(left, right, key, suffix),
     rows |-> Flatten([i \in 1..Len(left.rows) |-> merge_row(left, right, key, i)])]

\* Series.where(cond, other), element-wise
where(value, cond, other) == IF cond THEN value ELSE other

\* the "Sum allocations" branch
sum_allocations(s_reduced, alloc) ==
    LET with_num == SetColumn(s_reduced, ALLOC_NUM,
                        [i \in 1..Len(s_reduced.rows) |-> to_numeric(Column(s_reduced, alloc)[i])])
        grouped == groupby_sum(with_num, STYLE_KEY, ALLOC_NUM)
        fallback_first ==
            SelectColumns(drop_duplicates(dropna(with_num, alloc), STYLE_KEY),
                          <<STYLE_KEY, alloc>>)
        merged_group == merge_left(grouped, fallback_first, STYLE_KEY, SUFFIX_Y)
        num == Column(merged_group, ALLOC_NUM)
        first == Column(merged_group, alloc)
        filled == SetColumn(merged_group, alloc,
                      [i \in 1..Len(merged_group.rows) |->
                          where(num[i], notna(num[i]), first[i])])
    IN  SelectColumns(filled, <<STYLE_KEY, alloc>>)

\* the "Keep first" branch
keep_first(s_reduced, alloc) ==
    SelectColumns(drop_duplicates(s_reduced, STYLE_KEY), <<STYLE_KEY, alloc>>)

\* matched_rows = consolidated[st_alloc_col].notna().sum()
notna_count(df, name) ==
    Cardinality({i \in 1..Len(df.rows) : notna(Column(df, name)[i])})

-----------------------------------------------------------------------------
(* The Streamlit script: uploads, widgets, and the Consolidate run *)

KeepFirst == "Keep first"

SumAllocations == "Sum allocations"

NoMetrics == [total_rows |-> -1, matched_rows |-> -1, unmatched_rows |-> -1]

Unset == <<"Unset">>

BothUploaded == un_df # NoTable /\ st_df # NoTable

\* A rerun of the script without the button: nothing of the last run is shown.
NoRun ==
    /\ structured_final' = NoTable
    /\ consolidated' = NoTable
    /\ metrics' = NoMetrics

\* The column mapping of a rerun after an upload: the selectboxes are rebuilt
\* on the new options and stand at their defaults.
ColumnMapping(u, s) ==
    IF u # NoTable /\ s # NoTable
    THEN /\ un_style_col' = selectbox_default(u.cols, guess_style_or_first(u.cols))
         /\ st_style_col' = selectbox_default(s.cols, guess_style_or_first(s.cols))
         /\ st_alloc_col' = selectbox_default(s.cols, guess_chassis_column(s.cols))
         /\ st_alloc_chosen' = FALSE
    ELSE /\ un_style_col' = None
         /\ st_style_col' = None
         /\ st_alloc_col' = None
         /\ st_alloc_chosen' = FALSE

Options == <<opt_strip, opt_upper, opt_rm_spaces, opt_rm_lead0>>

Mapping == <<un_style_col, st_style_col, st_alloc_col, st_alloc_chosen>>

Pure == <<series, prev_series, passes, columns, guessed>>

\* read_uploaded_table for either report.  Each file is uploaded once: replacing
\* a file rebuilds the selectboxes and leads to states a first upload reaches too.
UploadUnstructured(tables) ==
    /\ un_df = NoTable
    /\ \E t \in tables :
          /\ un_df' = t
          /\ ColumnMapping(t, st_df)
    /\ NoRun
    /\ UNCHANGED <<st_df, Options, handle_dupes, Pure>>

UploadStructured(tables) ==
    /\ st_df = NoTable
    /\ \E t \in tables :
          /\ st_df' = t
          /\ ColumnMapping(un_df, t)
    /\ NoRun
    /\ UNCHANGED <<un_df, Options, handle_dupes, Pure>>

\* (the two style selectboxes are left at their defaults)
SelectStAllocCol ==
    /\ BothUploaded
    /\ \E c \in {st_df.cols[i] : i \in 1..Len(st_df.cols)} :
          /\ st_alloc_col' = c
          /\ st_alloc_chosen' = TRUE
    /\ NoRun
    /\ UNCHANGED <<un_df, st_df, un_style_col, st_style_col, Options, handle_dupes, Pure>>

ToggleStrip ==
    /\ BothUploaded
    /\ opt_strip' = ~opt_strip
    /\ NoRun
    /\ UNCHANGED <<un_df, st_df, Mapping, opt_upper, opt_rm_spaces, opt_rm_lead0,
                   handle_dupes, Pure>>

ToggleUpper ==
    /\ BothUploaded
    /\ opt_upper' = ~opt_upper
    /\ NoRun
    /\ UNCHANGED <<un_df, st_df, Mapping, opt_strip, opt_rm_spaces, opt_rm_lead0,
                   handle_dupes, Pure>>

ToggleRmSpaces ==
    /\ BothUploaded
    /\ opt_rm_spaces' = ~opt_rm_spaces
    /\ NoRun
    /\ UNCHANGED <<un_df, st_df, Mapping, opt_strip, opt_upper, opt_rm_lead0,
                   handle_dupes, Pure>>

ToggleRmLead0 ==
    /\ BothUploaded
    /\ opt_rm_lead0' = ~opt_rm_lead0
    /\ NoRun
    /\ UNCHANGED <<un_df, st_df, Mapping, opt_strip, opt_upper, opt_rm_spaces,
                   handle_dupes, Pure>>

SelectHandleDupes ==
    /\ BothUploaded
    /\ handle_dupes' = IF handle_dupes = KeepFirst THEN SumAllocations ELSE KeepFirst
    /\ NoRun
    /\ UNCHANGED <<un_df, st_df, Mapping, Options, Pure>>

\* if run: ... (the whole handler of the Consolidate button)
ReducedReference ==
    LET s == SetColumn(st_df, STYLE_KEY,
                 normalize_style_series(Column(st_df, st_style_col),
                     opt_strip, opt_upper, opt_rm_spaces, opt_rm_lead0))
        s_reduced == SelectColumns(s, <<STYLE_KEY, st_alloc_col>>)
    IN  IF handle_dupes = SumAllocations
        THEN sum_allocations(s_reduced, st_alloc_col)
        ELSE keep_first(s_reduced, st_alloc_col)

Consolidated(reduced) ==
    LET u == SetColumn(un_df, STYLE_KEY,
                 normalize_style_series(Column(un_df, un_style_col),
                     opt_strip, opt_upper, opt_rm_spaces, opt_rm_lead0))
    IN  drop_columns(merge_left(u, reduced, STYLE_KEY, SUFFIX_Y), STYLE_KEY)

Metrics(result) ==
    LET total == Len(result.rows)
        matched == notna_count(result, st_alloc_col)
    IN  [total_rows |-> total, matched_rows |-> matched, unmatched_rows |-> total - matched]

Consolidate ==
    /\ BothUploaded
    /\ structured_final' = ReducedReference
    /\ consolidated' = Consolidated(structured_final')
    /\ metrics' = Metrics(consolidated')
    /\ UNCHANGED <<un_df, st_df, Mapping, Options, handle_dupes, Pure>>

\* x = s.astype(str) ... return x, applied once more to its own result
ApplyNormalize ==
    /\ passes < MaxPasses
    /\ prev_series' = series
    /\ series' = normalize_style_series(series, opt_strip, opt_upper,
                                        opt_rm_spaces, opt_rm_lead0)
    /\ passes' = passes + 1
    /\ UNCHANGED <<un_df, st_df, Mapping, Options, handle_dupes,
                   structured_final, consolidated, metrics, columns, guessed>>

\* st_guess_style = guess_style_column(df.columns)
GuessStyle ==
    /\ guessed.style = Unset
    /\ guessed' = [guessed EXCEPT !.style = guess_style_column(columns)]
    /\ UNCHANGED <<un_df, st_df, Mapping, Options, handle_dupes,
                   structured_final, consolidated, metrics,
                   series, prev_series, passes, columns>>

\* st_guess_alloc = guess_chassis_column(df.columns)
GuessChassis ==
    /\ guessed.alloc = Unset
    /\ guessed' = [guessed EXCEPT !.alloc = guess_chassis_column(columns)]
    /\ UNCHANGED <<un_df, st_df, Mapping, Options, handle_dupes,
                   structured_final, consolidated, metrics,
                   series, prev_series, passes, columns>>

-----------------------------------------------------------------------------
(* Inputs *)

\* the texts of at most n characters over an alphabet
Texts(alphabet, n) == UNION {[1..k -> alphabet] : k \in 0..n}

\* the sequences of at most n elements of a set
SeqsUpTo(S, n) == UNION {[1..k -> S] : k \in 0..n}

\* the sequences of 1..n distinct elements of a set
Headers(S, n) ==
    {h \in UNION {[1..k -> S] : k \in 1..n} :
        \A i, j \in 1..Len(h) : i # j => h[i] # h[j]}

cStyle == <<"S","t","y","l","e">>
cStyleNo == <<"S","t","y","l","e"," ","#">>
cQty == <<"Q","t","y">>
cChassis == <<"C","h","a","s","s","i","s">>
cAllocation == <<"A","l","l","o","c","a","t","i","o","n">>
cChassisAllocation ==
    <<"C","h","a","s","s","i","s"," ","A","l","l","o","c","a","t","i","o","n">>
cCustDept == <<"C","u","s","t"," ","D","e","p","t">>

HeaderPool == {cStyle, cStyleNo, cQty, cChassis, cAllocation, cChassisAllocation, cCustDept}

\* two style values that the toggles make equal or keep apart
StyleCells == {Str(<<"A">>), Str(<<" ","0","a">>)}

\* allocation values: missing, two quantities, two free texts
ValueCells == {NaN, Str(<<"5">>), Str(<<"3">>), Str(<<"a">>), Str(<<"b">>)}

NormAlphabet == {" ", "0", "a", "A"}

NormCells == {Str(t) : t \in Texts(NormAlphabet, MaxStrLen)} \cup {NaN, Num(7)}

Table(cols, rowset, n) == {[cols |-> cols, rows |-> r] : r \in SeqsUpTo(rowset, n)}

\* reference tables [Style, Chassis Allocation] of at most MaxRefRows rows
ReduceRefTables ==
    Table(<<cStyle, cChassisAllocation>>,
          {<<k, v>> : k \in StyleCells, v \in ValueCells}, MaxRefRows)

\* one unstructured table that asks for every style value once
ProbeTables ==
    {[cols |-> <<cStyle>>, rows |-> << <<Str(<<"A">>)>>, <<Str(<<" ","0","a">>)>> >>]}

\* unstructured tables of at most MaxLeftRows rows: a plain one, one that has a
\* column labelled like the allocation column, one that has a _STYLE_KEY_ column
LeftRows ==
    { <<Str(<<"A">>), NaN>>, <<Str(<<"A">>), Str(<<"7">>)>>,
      <<Str(<<" ","0","a">>), Str(<<"7">>)>> }

JoinLeftTables ==
    UNION {Table(h, LeftRows, MaxLeftRows) :
              h \in {<<cStyle, cQty>>, <<cStyle, cAllocation>>, <<cStyle, STYLE_KEY>>}}

JoinRefTables ==
    {[cols |-> <<cStyle, cAllocation>>, rows |-> r] :
        r \in { <<>>,
                << <<Str(<<"A">>), Str(<<"5">>)>> >>,
                << <<Str(<<"A">>), NaN>>, <<Str(<<"A">>), Str(<<"5">>)>> >>,
                << <<Str(<<" ","0","a">>), Str(<<"a">>)>>, <<Str(<<"A">>), Str(<<"5">>)>>,
                   <<Str(<<"A">>), Str(<<"5">>)>> >> }}
    \cup
    {[cols |-> <<cStyle, cQty>>,
      rows |-> << <<Str(<<"A">>), Str(<<"5">>)>>, <<Str(<<" ","0","a">>), NaN>> >>]}

-----------------------------------------------------------------------------
(* Specifications *)

InitScript ==
    /\ un_df = NoTable
    /\ st_df = NoTable
    /\ un_style_col = None
    /\ st_style_col = None
    /\ st_alloc_col = None
    /\ st_alloc_chosen = FALSE
    /\ handle_dupes = SumAllocations
    /\ structured_final = NoTable
    /\ consolidated = NoTable
    /\ metrics = NoMetrics

InitOptions ==
    /\ opt_strip = TRUE
    /\ opt_upper = TRUE
    /\ opt_rm_spaces = TRUE
    /\ opt_rm_lead0 = FALSE

InitPure ==
    /\ series = <<>>
    /\ prev_series = <<>>
    /\ passes = 0
    /\ columns = <<>>
    /\ guessed = [style |-> Unset, alloc |-> Unset]

Init == InitScript /\ InitOptions /\ InitPure

Widgets ==
    \/ ToggleStrip
    \/ ToggleUpper
    \/ ToggleRmSpaces
    \/ ToggleRmLead0
    \/ SelectHandleDupes

\* the script on the join's inputs: many unstructured tables, a few reference tables
Next ==
    \/ UploadUnstructured(JoinLeftTables)
    \/ UploadStructured(JoinRefTables)
    \/ Widgets
    \/ SelectStAllocCol
    \/ Consolidate

Spec == Init /\ [][Next]_vars

\* the script on the reduction's inputs: every reference table, one probe table
\* (trimming, space removal and uppercasing stay switched on, as the checkboxes
\* start; the leading-zeros checkbox decides whether the two style values are
\* one key or two)
NextReduce ==
    \/ UploadUnstructured(ProbeTables)
    \/ UploadStructured(ReduceRefTables)
    \/ ToggleRmLead0
    \/ SelectHandleDupes
    \/ Consolidate

SpecReduce == Init /\ [][NextReduce]_vars

\* normalize_style_series on every short text under every combination of toggles
InitNorm ==
    /\ InitScript
    /\ opt_strip \in BOOLEAN
    /\ opt_upper \in BOOLEAN
    /\ opt_rm_spaces \in BOOLEAN
    /\ opt_rm_lead0 \in BOOLEAN
    /\ series \in {<<c>> : c \in NormCells}
    /\ prev_series = <<>>
    /\ passes = 0
    /\ columns = <<>>
    /\ guessed = [style |-> Unset, alloc |-> Unset]

SpecNorm == InitNorm /\ [][ApplyNormalize]_vars

\* the column resolver on every header of at most MaxCols columns of the pool
InitResolve ==
    /\ InitScript
    /\ InitOptions
    /\ series = <<>>
    /\ prev_series = <<>>
    /\ passes = 0
    /\ columns \in Headers(HeaderPool, MaxCols)
    /\ guessed = [style |-> Unset, alloc |-> Unset]

NextResolve == GuessStyle \/ GuessChassis

SpecResolve == InitResolve /\ [][NextResolve]_vars

-----------------------------------------------------------------------------
(* Properties *)

\* a Consolidate run is on display
Ran == consolidated # NoTable

\* the normalized key of a cell under the toggles in force
KeyOf(c) == normalize_value(c, opt_strip, opt_upper, opt_rm_spaces, opt_rm_lead0)

LeftIdx == 1..Len(un_df.rows)

RefIdx == 1..Len(st_df.rows)

LeftKey(i) == KeyOf(un_df.rows[i][ColIndex(un_df, un_style_col)])

RefKey(j) == KeyOf(st_df.rows[j][ColIndex(st_df, st_style_col)])

RefValue(j) == st_df.rows[j][ColIndex(st_df, st_alloc_col)]

\* the reference rows that share a key
Group(k) == {j \in RefIdx : RefKey(j) = k}

Min(S) == CHOOSE x \in S : \A y \in S : x <= y

Parseable(c) == to_numeric(c) # NaN

RECURSIVE SumOver(_)
SumOver(J) ==
    IF J = {} THEN 0
    ELSE LET j == CHOOSE x \in J : TRUE
         IN  to_numeric(RefValue(j)).num + SumOver(J \ {j})

\* the value attached to the i-th row of the consolidated table (its last cell)
Attached(i) == consolidated.rows[i][Len(consolidated.cols)]

\* the cells of a left row in the original columns other than the helper key
OrigPart(row) == RowsAt(row, {c \in 1..Len(un_df.cols) : un_df.cols[c] # STYLE_KEY}, 1)

\* the cells of a consolidated row before the attached value
LeftPart(row) == SubSeq(row, 1, Len(row) - 1)

\* C1: the consolidated table has as many rows as the left table and holds every
\* left row exactly as often as the left table does, under both duplicate
\* policies, whatever keys the reference rows or the left rows share.
C1_EveryLeftRowOnce ==
    Ran =>
        /\ Len(consolidated.rows) = Len(un_df.rows)
        /\ \A i \in LeftIdx :
              Cardinality({r \in 1..Len(consolidated.rows) :
                              LeftPart(consolidated.rows[r]) = OrigPart(un_df.rows[i])})
              = Cardinality({l \in LeftIdx : OrigPart(un_df.rows[l]) = OrigPart(un_df.rows[i])})

\* two left rows share a key that two reference rows share too, and a run is shown
C1_Witness ==
    /\ Ran
    /\ Len(un_df.rows) = 2
    /\ LeftKey(1) = LeftKey(2)
    /\ Cardinality(Group(LeftKey(1))) >= 2
    /\ Len(consolidated.rows) = 2

\* C2: under "Sum allocations", a left row whose key has a group of reference
\* rows with at least one parseable value is given the sum of exactly the
\* parseable values of that group.
C2_SumOfParseable ==
    (Ran /\ handle_dupes = SumAllocations) =>
        /\ Len(consolidated.rows) = Len(un_df.rows)
        /\ \A i \in LeftIdx :
              LET P == {j \in Group(LeftKey(i)) : Parseable(RefValue(j))}
              IN  P # {} => Attached(i) = Num(SumOver(P))

\* a group of "5", "3" and a free text gives 8
C2_Witness ==
    /\ Ran
    /\ handle_dupes = SumAllocations
    /\ \E i \in LeftIdx :
          LET G == Group(LeftKey(i))
          IN  /\ \E j \in G : RefValue(j) = Str(<<"5">>)
              /\ \E j \in G : RefValue(j) = Str(<<"3">>)
              /\ \E j \in G : RefValue(j).kind = "str" /\ ~Parseable(RefValue(j))
              /\ Cardinality(G) = 3
              /\ Attached(i) = Num(8)

\* C3 as stated: under "Sum allocations", a left row whose key has a group with
\* no parseable value is given the value cell of the first reference row of the
\* group, also when that cell is missing.
C3_FirstRowOfGroup ==
    (Ran /\ handle_dupes = SumAllocations) =>
        /\ Len(consolidated.rows) = Len(un_df.rows)
        /\ \A i \in LeftIdx :
              LET G == Group(LeftKey(i))
              IN  (G # {} /\ \A j \in G : ~Parseable(RefValue(j)))
                  => Attached(i) = RefValue(Min(G))

\* C3 amended: ... is given the value cell of the first reference row of the
\* group whose value cell is not missing, and a missing value if the group has
\* no such row.
C3_FirstNonMissingOfGroup ==
    (Ran /\ handle_dupes = SumAllocations) =>
        /\ Len(consolidated.rows) = Len(un_df.rows)
        /\ \A i \in LeftIdx :
              LET G == Group(LeftKey(i))
                  N == {j \in G : notna(RefValue(j))}
              IN  (G # {} /\ \A j \in G : ~Parseable(RefValue(j)))
                  => Attached(i) = IF N = {} THEN NaN ELSE RefValue(Min(N))

\* a group that starts with a missing value and goes on with two free texts
C3_Witness ==
    /\ Ran
    /\ handle_dupes = SumAllocations
    /\ \E i \in LeftIdx :
          LET G == Group(LeftKey(i))
              N == {j \in G : notna(RefValue(j))}
          IN  /\ \A j \in G : ~Parseable(RefValue(j))
              /\ Cardinality(N) = 2
              /\ ~notna(RefValue(Min(G)))
              /\ RefValue(Min(N)) # RefValue(Min(N \ {Min(N)}))
              /\ Attached(i) = RefValue(Min(N))

\* C4: under "Keep first", the reduced reference table has exactly one row for
\* every distinct key, that row holds the value cell of the first reference row
\* with the key, and this is the value a left row with the key is given.
C4_KeepFirst ==
    (Ran /\ handle_dupes = KeepFirst) =>
        LET fk == Column(structured_final, STYLE_KEY)
        IN  /\ \A a, b \in 1..Len(fk) : a # b => fk[a] # fk[b]
            /\ {fk[a] : a \in 1..Len(fk)} = {RefKey(j) : j \in RefIdx}
            /\ \A a \in 1..Len(fk) :
                  structured_final.rows[a][2] = RefValue(Min(Group(fk[a])))
            /\ Len(consolidated.rows) = Len(un_df.rows)
            /\ \A i \in LeftIdx :
                  Group(LeftKey(i)) # {} => Attached(i) = RefValue(Min(Group(LeftKey(i))))

\* a key with two reference rows of different values
C4_Witness ==
    /\ Ran
    /\ handle_dupes = KeepFirst
    /\ \E i \in LeftIdx :
          LET G == Group(LeftKey(i))
          IN  /\ Cardinality(G) >= 2
              /\ \E j \in G : RefValue(j) # RefValue(Min(G))
              /\ Attached(i) = RefValue(Min(G))

\* C5: the reported total is the number of left rows, and with m left rows whose
\* key has no entry in the reduced reference table the reported counts are
\* matched = n - m and unmatched = m.
C5_Counts ==
    Ran =>
        LET fk == Column(structured_final, STYLE_KEY)
            n == Len(un_df.rows)
            m == Cardinality({i \in LeftIdx : \A a \in 1..Len(fk) : fk[a] # LeftKey(i)})
        IN  /\ metrics.total_rows = n
            /\ metrics.matched_rows = n - m
            /\ metrics.unmatched_rows = m

\* C6: normalizing an already normalized series under the same toggles returns
\* it unchanged.
C6_Idempotent == passes >= 2 => series = prev_series

\* the first column, in table order, that contains the candidate of highest
\* priority that any column contains
PriorityFirst(cols, candidates) ==
    LET hit(k) == \E i \in 1..Len(cols) : Contains(lower(cols[i]), candidates[k])
    IN  IF \E k \in 1..Len(candidates) : hit(k)
        THEN LET best == Min({k \in 1..Len(candidates) : hit(k)})
             IN  cols[Min({i \in 1..Len(cols) : Contains(lower(cols[i]), candidates[best])})]
        ELSE None

\* C7: when no column contains both "chassis" and "alloc", the allocation column
\* is the first column that contains the candidate of highest priority that any
\* column contains.
C7_CandidatePriority ==
    (/\ guessed.alloc # Unset
     /\ \A i \in 1..Len(columns) :
           ~(/\ Contains(lower(columns[i]), <<"c","h","a","s","s","i","s">>)
             /\ Contains(lower(columns[i]), <<"a","l","l","o","c">>)))
    => guessed.alloc = PriorityFirst(columns, CHASSIS_CANDIDATES)

\* C8: no run is made on an allocation column that the resolver did not find
\* and the user did not pick.
C8_NoSilentDefault ==
    ~(Ran /\ guess_chassis_column(st_df.cols) = None /\ ~st_alloc_chosen)

\* C9: the consolidated table has every column of the left table, in order, and
\* after them the attached value column.
C9_ColumnsKept ==
    Ran =>
        /\ Len(consolidated.cols) = Len(un_df.cols) + 1
        /\ SubSeq(consolidated.cols, 1, Len(un_df.cols)) = un_df.cols

\* C10: the i-th row of the consolidated table carries the cells of the i-th
\* left row in every original column other than the helper key.
C10_RowOrderKept ==
    Ran =>
        /\ Len(consolidated.rows) = Len(un_df.rows)
        /\ \A i \in LeftIdx :
              \A c \in 1..Len(un_df.cols) :
                  un_df.cols[c] # STYLE_KEY =>
                      Column(consolidated, un_df.cols[c])[i] = un_df.rows[i][c]

\* two matched left rows whose keys stand in descending order, summed
C10_Witness ==
    /\ Ran
    /\ handle_dupes = SumAllocations
    /\ Len(un_df.rows) = 2
    /\ TextLess(LeftKey(2).text, LeftKey(1).text)
    /\ Group(LeftKey(1)) # {}
    /\ Group(LeftKey(2)) # {}
    /\ un_df.rows[1] # un_df.rows[2]

====
